---------------------------- MODULE Spec2Model ----------------------------
(***************************************************************************)
(* TerraCaughta (src/app1.py): the round state machine, the guess          *)
(* evaluator, the country selector and the session aggregates, as one      *)
(* state machine over st.session_state.                                    *)
(*                                                                         *)
(* Text that the program inspects character by character (country names,   *)
(* guesses) is a sequence of one-character strings; text that it only      *)
(* stores or tests for emptiness is an ordinary string.  An optional       *)
(* value is a sequence of length at most one: None is << >>, a present     *)
(* value x is <<x>>.  Coordinates are integers in hundredths of a degree   *)
(* (the geo service's values are taken to carry two decimals, on which     *)
(* round(., 2) changes nothing).                                           *)
(***************************************************************************)
EXTENDS Integers, Sequences, FiniteSets, TLC

(***************************************************************************)
(* Bounds of the model.                                                    *)
(***************************************************************************)
\* rounds started in one session
MaxRounds == 3

(***************************************************************************)
(* Program constants.                                                      *)
(***************************************************************************)
MAX_MISTAKES == 3
MAX_RETRIES == 100
MIN_POPULATION == 1000000
TOP_BORDERS == 3

POINT_MAP == [k \in 0..4 |-> 10 - 2 * k]

None == << >>
Some(x) == <<x>>

Min2(a, b) == IF a <= b THEN a ELSE b

(***************************************************************************)
(* str.lower and str.strip, and normalize_text built from them.            *)
(***************************************************************************)
UpperChars ==
  <<"A","B","C","D","E","F","G","H","I","J","K","L","M",
    "N","O","P","Q","R","S","T","U","V","W","X","Y","Z">>
LowerChars ==
  <<"a","b","c","d","e","f","g","h","i","j","k","l","m",
    "n","o","p","q","r","s","t","u","v","w","x","y","z">>
Whitespace == {" ", "\t", "\n"}

lower_char(ch) ==
  IF \E j \in 1..26 : UpperChars[j] = ch
    THEN LowerChars[CHOOSE j \in 1..26 : UpperChars[j] = ch]
    ELSE ch

lower(text) == [k \in 1..Len(text) |-> lower_char(text[k])]

strip(text) ==
  LET keep == {k \in 1..Len(text) : text[k] \notin Whitespace}
  IN IF keep = {} THEN << >>
     ELSE SubSeq(text,
                 CHOOSE k \in keep : \A m \in keep : k <= m,
                 CHOOSE k \in keep : \A m \in keep : k >= m)

\* normalize_text without the strip: only the casing is removed.
normalize_text_no_strip(text) == lower(text)

normalize_text(text) == strip(lower(text))

(***************************************************************************)
(* Levenshtein.distance: insertions, deletions and substitutions, by rows  *)
(* of the dynamic programme.  A row holds the distances from a prefix of a *)
(* to every prefix of b; position j + 1 of the row is the prefix of        *)
(* length j.                                                               *)
(***************************************************************************)
RECURSIVE LevRow(_, _, _, _)
LevRow(prev, ch, b, acc) ==
  IF Len(acc) = Len(b) + 1 THEN acc
  ELSE LET j == Len(acc)
           sub == prev[j] + (IF ch = b[j] THEN 0 ELSE 1)
       IN LevRow(prev, ch, b,
                 Append(acc, Min2(Min2(prev[j + 1] + 1, acc[j] + 1), sub)))

RECURSIVE LevRows(_, _, _, _)
LevRows(a, b, k, prev) ==
  IF k > Len(a) THEN prev
  ELSE LevRows(a, b, k + 1, LevRow(prev, a[k], b, <<prev[1] + 1>>))

distance(a, b) ==
  LevRows(a, b, 1, [j \in 1..(Len(b) + 1) |-> j - 1])[Len(b) + 1]

(***************************************************************************)
(* ALTERNATE_NAMES: the aliases registered for a normalized name; the      *)
(* empty set stands for a name that is no key of the table.                *)
(***************************************************************************)
ALTERNATE_NAMES(n) ==
     IF n = <<"n","e","t","h","e","r","l","a","n","d","s">>
       THEN {<<"h","o","l","l","a","n","d">>,
             <<"t","h","e"," ","n","e","t","h","e","r","l","a","n","d","s">>}
     ELSE
     IF n = <<"u","n","i","t","e","d"," ","k","i","n","g","d","o","m">>
       THEN {<<"u","k">>,
             <<"b","r","i","t","a","i","n">>,
             <<"e","n","g","l","a","n","d">>}
     ELSE
     IF n = <<"u","n","i","t","e","d"," ","s","t","a","t","e","s">>
       THEN {<<"u","s","a">>,
             <<"u","s">>,
             <<"a","m","e","r","i","c","a">>}
     ELSE
     IF n = <<"u","n","i","t","e","d"," ","a","r","a","b"," ","e","m","i","r","a","t","e","s">>
       THEN {<<"u","a","e">>,
             <<"e","m","i","r","a","t","e","s">>}
     ELSE
     IF n = <<"r","u","s","s","i","a","n"," ","f","e","d","e","r","a","t","i","o","n">>
       THEN {<<"r","u","s","s","i","a">>}
     ELSE
     IF n = <<"s","o","u","t","h"," ","k","o","r","e","a">>
       THEN {<<"k","o","r","e","a">>,
             <<"r","o","k">>}
     ELSE
     IF n = <<"n","o","r","t","h"," ","k","o","r","e","a">>
       THEN {<<"d","p","r","k">>}
     ELSE
     IF n = <<"s","y","r","i","a">>
       THEN {<<"s","y","r","i","a","n"," ","a","r","a","b"," ","r","e","p","u","b","l","i","c">>}
     ELSE
     IF n = <<"l","a","o","s">>
       THEN {<<"l","a","o"," ","p","d","r">>}
     ELSE
     IF n = <<"v","i","e","t","n","a","m">>
       THEN {<<"v","i","e","t"," ","n","a","m">>}
     ELSE
     IF n = <<"i","r","a","n">>
       THEN {<<"p","e","r","s","i","a">>}
     ELSE
     IF n = <<"t","u-diaeresis","r","k","i","y","e">>
       THEN {<<"t","u","r","k","e","y">>}
     ELSE
     IF n = <<"c","z","e","c","h","i","a">>
       THEN {<<"c","z","e","c","h"," ","r","e","p","u","b","l","i","c">>}
     ELSE {}

(***************************************************************************)
(* The match rule of handle_submit_guess, on a normalized guess and a      *)
(* normalized target name.                                                 *)
(***************************************************************************)
\* is_match whose fuzzy rule admits a guess of 3 characters.
is_match_short_guess(user_guess, normalized_name) ==
  \/ user_guess = normalized_name
  \/ user_guess \in ALTERNATE_NAMES(normalized_name)
  \/ /\ Len(user_guess) >= 3
     /\ distance(user_guess, normalized_name) <= MAX_MISTAKES

is_match(user_guess, normalized_name) ==
  \/ user_guess = normalized_name
  \/ user_guess \in ALTERNATE_NAMES(normalized_name)
  \/ /\ Len(user_guess) > 3
     /\ distance(user_guess, normalized_name) <= MAX_MISTAKES

(***************************************************************************)
(* The country-directory service (restcountries): the records it can       *)
(* return.  A key that may be absent from a record is an optional value:   *)
(* the records of Iraq and Fiji come without the borders key, those of     *)
(* Cuba and Taiwan with an empty list of borders.                          *)
(***************************************************************************)
Iran ==
  [name |-> <<"I","r","a","n">>, cca2 |-> Some("IR"), population |-> Some(89000000),
   borders |-> Some(<<"IRQ", "TKM", "AFG", "PAK">>), capital |-> Some(<<"Tehran">>),
   currencies |-> Some(<<"IRR">>)]
Iraq ==
  [name |-> <<"I","r","a","q">>, cca2 |-> Some("IQ"), population |-> Some(45000000),
   borders |-> None, capital |-> Some(<<"Baghdad">>),
   currencies |-> Some(<<"IQD">>)]
Cuba ==
  [name |-> <<"C","u","b","a">>, cca2 |-> Some("CU"), population |-> Some(11000000),
   borders |-> Some(<< >>), capital |-> Some(<<"Havana">>),
   currencies |-> Some(<<"CUC", "CUP">>)]
Fiji ==
  [name |-> <<"F","i","j","i">>, cca2 |-> Some("FJ"), population |-> Some(900000),
   borders |-> None, capital |-> Some(<<"Suva">>),
   currencies |-> Some(<<"FJD">>)]
Taiwan ==
  [name |-> <<"T","a","i","w","a","n">>, cca2 |-> Some("TW"), population |-> Some(23000000),
   borders |-> Some(<< >>), capital |-> Some(<<"Taipei">>),
   currencies |-> Some(<<"TWD">>)]

Oman ==
  [name |-> <<"O","m","a","n">>, cca2 |-> Some("OM"), population |-> Some(4600000),
   borders |-> Some(<<"YEM">>), capital |-> Some(<<"Muscat">>),
   currencies |-> Some(<<"OMR">>)]

\* A country whose capital the geo service places on the prime meridian.
Ghana ==
  [name |-> <<"G","h","a","n","a">>, cca2 |-> Some("GH"), population |-> Some(33000000),
   borders |-> Some(<<"TGO">>), capital |-> Some(<<"Accra">>),
   currencies |-> Some(<<"GHS">>)]

\* What /all can answer on different days.
Catalogs == {<<Iran, Iraq, Fiji>>, <<Iran, Taiwan>>, <<Cuba, Oman, Ghana>>}

\* /alpha?codes=...&fields=name,population: the records of the codes it knows.
AlphaData(code) ==
  IF code = "IRQ" THEN Some([name |-> "Iraq", population |-> Some(45000000)])
  ELSE IF code = "IRN" THEN Some([name |-> "Iran", population |-> Some(89000000)])
  ELSE IF code = "TKM" THEN Some([name |-> "Turkmenistan", population |-> Some(6000000)])
  ELSE IF code = "AFG" THEN Some([name |-> "Afghanistan", population |-> Some(40000000)])
  ELSE IF code = "PAK" THEN Some([name |-> "Pakistan", population |-> None])
  ELSE None

(***************************************************************************)
(* The geo/economic service (World Bank): the record of a country code.    *)
(* None: the service has no such country; a blank latitude or longitude    *)
(* is None, as is a record without income level.                           *)
(***************************************************************************)
WorldBank(code) ==
  IF code = "IR"
    THEN Some([latitude |-> Some(3570), longitude |-> Some(5142),
               incomeLevel |-> Some("Lower middle income")])
  ELSE IF code = "IQ"
    THEN Some([latitude |-> Some(3333), longitude |-> Some(4444),
               incomeLevel |-> Some("Upper middle income")])
  ELSE IF code = "CU"
    THEN Some([latitude |-> Some(2311), longitude |-> Some(0 - 8236),
               incomeLevel |-> Some("Upper middle income")])
  ELSE IF code = "GH"
    THEN Some([latitude |-> Some(555), longitude |-> Some(0),
               incomeLevel |-> Some("Lower middle income")])
  ELSE IF code = "OM"
    THEN Some([latitude |-> Some(2360), longitude |-> Some(5855),
               incomeLevel |-> None])
  ELSE None

(***************************************************************************)
(* dict.get(key, default) on an optional value.                            *)
(***************************************************************************)
get(opt, default) == IF opt = None THEN default ELSE opt[1]

abs(x) == IF x < 0 THEN 0 - x ELSE x

(***************************************************************************)
(* get_world_bank_clue.  up: the request succeeded.  Any exception (no     *)
(* record, a blank coordinate, no income level) gives the Unavailable      *)
(* record, and so does a coordinate equal to zero.                         *)
(***************************************************************************)
Unavailable ==
  [location |-> [text |-> "Unavailable", abs_lat |-> 0, lat_dir |-> "",
                 abs_lon |-> 0, lon_dir |-> ""],
   classification |-> "Unavailable", lat |-> None, lon |-> None]

\* Which line of get_world_bank_clue gives up, for the history of the calls;
\* the Unavailable record itself is the same on every one of them.
why_unavailable(country_iso_code, up) ==
  LET data == WorldBank(country_iso_code) IN
  IF ~up THEN "request"
  ELSE IF data = None THEN "no record"
  ELSE IF data[1].latitude = None \/ data[1].longitude = None THEN "no coordinates"
  ELSE IF data[1].incomeLevel = None THEN "no income level"
  ELSE IF data[1].latitude[1] = 0 \/ data[1].longitude[1] = 0 THEN "zero coordinate"
  ELSE ""

get_world_bank_clue(country_iso_code, up) ==
  LET data == WorldBank(country_iso_code) IN
  IF ~up \/ data = None THEN Unavailable
  ELSE IF data[1].latitude = None \/ data[1].longitude = None THEN Unavailable
  ELSE IF data[1].incomeLevel = None THEN Unavailable
  ELSE LET lat == data[1].latitude[1]
           lon == data[1].longitude[1]
       IN IF lat = 0 \/ lon = 0 THEN Unavailable
          ELSE [location |-> [text |-> "coordinates",
                              abs_lat |-> abs(lat),
                              lat_dir |-> IF lat >= 0 THEN "N" ELSE "S",
                              abs_lon |-> abs(lon),
                              lon_dir |-> IF lon >= 0 THEN "E" ELSE "W"],
                classification |-> data[1].incomeLevel[1],
                lat |-> Some(lat), lon |-> Some(lon)]

(***************************************************************************)
(* get_border_names.  A joined text is the sequence of its pieces; the     *)
(* empty sequence is the empty string.                                     *)
(***************************************************************************)
IslandText == <<"It is an island country or surrounded by a single nation.">>
BorderUnavailable == <<"Border data unavailable.">>

\* sorted(border_data, key=population, reverse=True): stable, descending.
RECURSIVE insert_sorted(_, _)
insert_sorted(sorted, x) ==
  IF sorted = << >> THEN <<x>>
  ELSE IF get(Head(sorted).population, 0) >= get(x.population, 0)
    THEN <<Head(sorted)>> \o insert_sorted(Tail(sorted), x)
    ELSE <<x>> \o sorted

RECURSIVE sorted_by_population(_)
sorted_by_population(data) ==
  IF data = << >> THEN << >>
  ELSE insert_sorted(sorted_by_population(SubSeq(data, 1, Len(data) - 1)),
                     data[Len(data)])

RECURSIVE alpha_response(_)
alpha_response(codes) ==
  IF codes = << >> THEN << >>
  ELSE (IF AlphaData(Head(codes)) = None THEN << >> ELSE AlphaData(Head(codes)))
       \o alpha_response(Tail(codes))

get_border_names(border_codes, up) ==
  IF border_codes = <<"Island">> THEN IslandText
  ELSE IF ~up THEN BorderUnavailable
  ELSE LET border_data_sorted == sorted_by_population(alpha_response(border_codes))
           top == SubSeq(border_data_sorted, 1, Min2(TOP_BORDERS, Len(border_data_sorted)))
       IN [k \in 1..Len(top) |-> top[k].name]

(***************************************************************************)
(* fetch_all_countries, without its cache: response is None when the       *)
(* request fails, else the catalog the service answers.                    *)
(***************************************************************************)
at_least_a_million(country) == get(country.population, 0) >= MIN_POPULATION

fetch_all_countries(response) ==
  IF response = None THEN << >>
  ELSE SelectSeq(response[1], at_least_a_million)

(***************************************************************************)
(* st.session_state after the initialisation block.  name_input and        *)
(* guess_input are the keys of the two text widgets; lat and lon do not    *)
(* exist before the first round (None).                                    *)
(***************************************************************************)
InitialSession ==
  [game_started |-> FALSE, mystery_country |-> None, clue_index |-> 0,
   clues_list |-> << >>, game_ended |-> FALSE, guess_input |-> << >>,
   win |-> FALSE, current_streak |-> 0, accumulated_points |-> 0,
   user_name |-> None, exit_message |-> None, wb_clue |-> None,
   last_streak |-> 0, used_countries |-> {}, name_input |-> "",
   lat |-> None, lon |-> None]

(***************************************************************************)
(* select_mystery_country: one pass of the retry loop, on the candidate    *)
(* random.choice drew.  wb_up: the geo request of this pass succeeds.      *)
(* result is the country returned, or None when the pass ends in a         *)
(* continue; why tells which check rejected the candidate.                 *)
(***************************************************************************)
\* reshuffle that waits until the used set is larger than the pool.
reshuffle_strict(s, filtered_countries) ==
  IF Cardinality(s.used_countries) > Len(filtered_countries)
    THEN [s EXCEPT !.used_countries = {}]
    ELSE s

reshuffle(s, filtered_countries) ==
  IF Cardinality(s.used_countries) >= Len(filtered_countries)
    THEN [s EXCEPT !.used_countries = {}]
    ELSE s

\* with_island that only looks for a missing borders key.
with_island_missing_only(mystery_country) ==
  IF mystery_country.borders = None
    THEN [mystery_country EXCEPT !.borders = Some(<<"Island">>)]
    ELSE mystery_country

with_island(mystery_country) ==
  IF mystery_country.borders = None \/ Len(mystery_country.borders[1]) = 0
    THEN [mystery_country EXCEPT !.borders = Some(<<"Island">>)]
    ELSE mystery_country

select_pass(s, filtered_countries, mystery_country, wb_up) ==
  LET s1 == reshuffle(s, filtered_countries)
      world_bank_clue == get_world_bank_clue(get(mystery_country.cca2, "XX"), wb_up)
  IN IF mystery_country.name \in s1.used_countries
       THEN [s |-> s1, result |-> None, why |-> "used"]
     ELSE IF world_bank_clue.lat # None /\ world_bank_clue.lon # None
       THEN [s |-> [s1 EXCEPT !.wb_clue = Some(world_bank_clue)],
             result |-> Some(with_island(mystery_country)), why |-> "ok"]
     ELSE [s |-> s1, result |-> None,
           why |-> why_unavailable(get(mystery_country.cca2, "XX"), wb_up)]

(***************************************************************************)
(* initialize_game, in the three ways it can go on after the pool fetch:   *)
(* no data, a country selected, selection failed.                          *)
(***************************************************************************)
clear_exit_message(s) == [s EXCEPT !.exit_message = None]

no_data(s) == [clear_exit_message(s) EXCEPT !.mystery_country = None]

\* selection_failed that also takes the round back to its first clue.
selection_failed_resets_round(s) ==
  [s EXCEPT !.mystery_country = None, !.clue_index = 0, !.game_ended = FALSE]

selection_failed(s) == [s EXCEPT !.mystery_country = None]

build_clues(country, world_bank_data, border_names) ==
  <<[clue |-> 1, points |-> 10, location |-> world_bank_data.location,
     classification |-> world_bank_data.classification],
    [clue |-> 2, points |-> 8, population |-> country.population[1]],
    [clue |-> 3, points |-> 6, currency |-> get(country.currencies, <<"ABC">>)[1]],
    [clue |-> 4, points |-> 4, neighbors |-> border_names],
    [clue |-> 5, points |-> 2, capital |-> get(country.capital, <<"Unknown">>)[1]]>>

start_round(s, country, borders_up) ==
  LET world_bank_data == s.wb_clue[1]
      border_names == get_border_names(get(country.borders, << >>), borders_up)
  IN [s EXCEPT !.mystery_country = Some(country),
               !.clues_list = build_clues(country, world_bank_data, border_names),
               !.lat = world_bank_data.lat,
               !.lon = world_bank_data.lon,
               !.game_started = TRUE,
               !.clue_index = 0,
               !.game_ended = FALSE,
               !.guess_input = << >>]

(***************************************************************************)
(* handle_exit.                                                            *)
(***************************************************************************)
handle_exit(s) ==
  [s EXCEPT !.game_started = FALSE,
            !.game_ended = FALSE,
            !.current_streak = 0,
            !.accumulated_points = 0,
            !.user_name = None,
            !.used_countries = {},
            !.exit_message = Some([points |-> s.accumulated_points,
                                   streak |-> s.current_streak])]

(***************************************************************************)
(* handle_next_clue.  With no mystery country the last statement of the    *)
(* skip branch raises, after the assignments before it.                    *)
(***************************************************************************)
\* has_next_clue off by one: the last clue is taken to have a successor.
has_next_clue_off_by_one(s) == s.clue_index < Len(s.clues_list)

has_next_clue(s) == s.clue_index < Len(s.clues_list) - 1

\* add_used that records the normalized name instead of the common name.
add_used_normalized(s) ==
  IF s.mystery_country = None THEN s
  ELSE [s EXCEPT !.used_countries = @ \cup {normalize_text(s.mystery_country[1].name)}]

add_used(s) ==
  IF s.mystery_country = None THEN s
  ELSE [s EXCEPT !.used_countries = @ \cup {s.mystery_country[1].name}]

\* skip_last_clue that resets the streak before it captures it.
skip_last_clue_reset_first(s) ==
  add_used([s EXCEPT !.game_ended = TRUE,
                     !.win = FALSE,
                     !.last_streak = 0,
                     !.current_streak = 0])

skip_last_clue(s) ==
  add_used([s EXCEPT !.game_ended = TRUE,
                     !.win = FALSE,
                     !.last_streak = s.current_streak,
                     !.current_streak = 0])

\* handle_next_clue that counts every skip against the streak.
handle_next_clue_costs_streak(s) ==
  LET s1 == [s EXCEPT !.guess_input = << >>]
  IN IF has_next_clue(s1)
       THEN [s1 EXCEPT !.clue_index = @ + 1, !.current_streak = 0]
       ELSE skip_last_clue(s1)

handle_next_clue(s) ==
  LET s1 == [s EXCEPT !.guess_input = << >>]
  IN IF has_next_clue(s1)
       THEN [s1 EXCEPT !.clue_index = @ + 1]
       ELSE skip_last_clue(s1)

(***************************************************************************)
(* handle_submit_guess.  With no mystery country the name lookup raises    *)
(* before anything is assigned.                                            *)
(***************************************************************************)
\* points_awarded that looks up the clue count instead of the clue index.
points_awarded_by_count(s) ==
  IF s.clue_index + 1 \in DOMAIN POINT_MAP THEN POINT_MAP[s.clue_index + 1] ELSE 0

points_awarded(s) == IF s.clue_index \in DOMAIN POINT_MAP THEN POINT_MAP[s.clue_index] ELSE 0

win_round(s) ==
  add_used([s EXCEPT !.accumulated_points = @ + points_awarded(s),
                     !.game_ended = TRUE,
                     !.win = TRUE,
                     !.current_streak = @ + 1])

\* wrong_guess whose loss on the last clue does not capture the streak.
wrong_guess_no_capture(s) ==
  IF has_next_clue(s)
    THEN [s EXCEPT !.clue_index = @ + 1]
    ELSE add_used([s EXCEPT !.game_ended = TRUE,
                            !.win = FALSE,
                            !.current_streak = 0])

wrong_guess(s) ==
  IF has_next_clue(s)
    THEN [s EXCEPT !.clue_index = @ + 1]
    ELSE add_used([s EXCEPT !.game_ended = TRUE,
                            !.win = FALSE,
                            !.last_streak = s.current_streak,
                            !.current_streak = 0])

empty_guess(user_guess) == user_guess = << >>

handle_submit_guess(s) ==
  LET user_guess == normalize_text(s.guess_input)
  IN IF empty_guess(user_guess) THEN s
     ELSE IF s.mystery_country = None THEN s
     ELSE LET normalized_name == normalize_text(s.mystery_country[1].name)
              s1 == IF is_match(user_guess, normalized_name)
                      THEN win_round(s)
                      ELSE wrong_guess(s)
          IN [s1 EXCEPT !.guess_input = << >>]

(***************************************************************************)
(* The script body below the handlers: which widgets a run of the script   *)
(* draws for a session state.  "exit": the exit message and nothing else;  *)
(* "name": the name input and Start Game; "game": the guess input, Submit  *)
(* Guess and Next Clue; "end": Play Again and EXIT; "blank": no widget;    *)
(* "error": the end screen raised on a missing country before it drew its  *)
(* buttons.                                                                *)
(***************************************************************************)
render(s) ==
  IF s.exit_message # None THEN "exit"
  ELSE IF s.user_name = None THEN "name"
  ELSE IF s.game_ended
    THEN (IF s.mystery_country = None THEN "error" ELSE "end")
  ELSE IF s.game_started THEN "game"
  ELSE "blank"

(***************************************************************************)
(* The inputs of the model.                                                *)
(***************************************************************************)
Names == {"", "Ann"}

Guesses ==
  {<<" ", " ">>,
   <<" ", "I","r","a","n", " ">>,
   <<"p","e","r","s","i","a">>,
   <<"i","r","a","q">>,
   <<"P","e","r","u">>}

Responses == {None} \cup {Some(catalog) : catalog \in Catalogs}

(***************************************************************************)
(* ss: st.session_state.  cache: the st.cache_data entry of                *)
(* fetch_all_countries (None: no entry, or expired).  pc, i, pool: where   *)
(* initialize_game stands ("select": inside the retry loop of              *)
(* select_mystery_country, i passes made, pool its filtered_countries).    *)
(* ui: the widgets the browser shows, drawn by the last run of the script. *)
(* cb: 1 when the on_change callback of the shown text input has run and   *)
(* the script has not been rerun yet.  via: which widget event runs the    *)
(* current handler.  call: the last handler call, rounds: the rounds       *)
(* started, sel: how the current or last selection began and went, wins:   *)
(* the rounds that became Won since a round last became Lost (history      *)
(* only).                                                                  *)
(***************************************************************************)
VARIABLES ss, cache, pc, i, pool, via, ui, cb, call, rounds, sel, wins

vars == <<ss, cache, pc, i, pool, via, ui, cb, call, rounds, sel, wins>>

Call(op, guess, why) == [op |-> op, guess |-> guess, why |-> why]

NoSelection == [covered |-> FALSE, cleared |-> FALSE, result |-> "none"]

Init ==
  /\ ss = InitialSession
  /\ cache = None
  /\ pc = "idle"
  /\ i = 0
  /\ pool = << >>
  /\ via = "click"
  /\ ui = render(InitialSession)
  /\ cb = 0
  /\ call = Call("none", << >>, "")
  /\ rounds = 0
  /\ sel = NoSelection
  /\ wins = 0

(***************************************************************************)
(* A handler returns.  After a button's on_click the script is rerun and   *)
(* draws the widgets of the new state.  After a text input's on_change the *)
(* click that took the focus from the input may still be delivered to the  *)
(* button the browser shows, so the widgets stay until Rerun or a click.   *)
(***************************************************************************)
Won(s) == s.game_ended /\ s.win
Lost(s) == s.game_ended /\ ~s.win

wins_after(s) ==
  IF s.exit_message # None THEN 0
  ELSE IF Won(s) /\ ~Won(ss) THEN wins + 1
  ELSE IF Lost(s) /\ ~Lost(ss) THEN 0
  ELSE wins

Return(s, v) ==
  /\ ss' = s
  /\ wins' = wins_after(s)
  /\ pc' = "idle"
  /\ ui' = IF v = "click" THEN render(s) ELSE ui
  /\ cb' = IF v = "click" THEN 0 ELSE 1

Rerun ==
  /\ pc = "idle"
  /\ cb = 1
  /\ ui' = render(ss)
  /\ cb' = 0
  /\ call' = Call("rerun", << >>, "")
  /\ UNCHANGED <<ss, cache, pc, i, pool, via, rounds, sel, wins>>

(***************************************************************************)
(* @st.cache_data(ttl=3600) around fetch_all_countries: an entry is        *)
(* returned without a request; without one the function runs and its       *)
(* return value becomes the entry.                                         *)
(***************************************************************************)
cached_fetch(entry, response) ==
  IF entry # None THEN entry[1] ELSE fetch_all_countries(response)

Expire ==
  /\ pc = "idle"
  /\ cache # None
  /\ cache' = None
  /\ call' = Call("expire", << >>, "")
  /\ UNCHANGED <<ss, pc, i, pool, via, ui, cb, rounds, sel, wins>>

pool_names(filtered_countries) ==
  {filtered_countries[k].name : k \in 1..Len(filtered_countries)}

(***************************************************************************)
(* initialize_game up to the retry loop, from session state s0.            *)
(***************************************************************************)
BeginInit(s0, v) ==
  /\ rounds < MaxRounds
  /\ \E response \in Responses :
       LET filtered_countries == cached_fetch(cache, response)
       IN /\ cache' = Some(filtered_countries)
          /\ call' = Call("initialize_game", << >>,
                          IF filtered_countries = << >> THEN "no data" ELSE "")
          /\ IF filtered_countries = << >>
               THEN /\ Return(no_data(s0), v)
                    /\ sel' = NoSelection
                    /\ UNCHANGED <<i, pool, via, rounds>>
               ELSE /\ ss' = clear_exit_message(s0)
                    /\ pc' = "select"
                    /\ i' = 0
                    /\ pool' = filtered_countries
                    /\ via' = v
                    /\ sel' = [covered |-> pool_names(filtered_countries)
                                             \subseteq s0.used_countries,
                               cleared |-> FALSE, result |-> "running"]
                    /\ UNCHANGED <<ui, cb, rounds, wins>>

(***************************************************************************)
(* One pass of the retry loop and, when it ends the loop, the rest of      *)
(* initialize_game.  The locals of the loop end with it.                   *)
(***************************************************************************)
\* retry_left with one pass too many.
retry_left_one_more(n) == n < MAX_RETRIES

\* for i in range(MAX_RETRIES): whether a pass follows pass number i (from 0).
retry_left(n) == n + 1 < MAX_RETRIES

EndLoop ==
  /\ i' = 0
  /\ pool' = << >>
  /\ via' = "click"

SelectStep ==
  /\ pc = "select"
  /\ \E k \in 1..Len(pool), wb_up \in BOOLEAN, borders_up \in BOOLEAN :
       LET r == select_pass(ss, pool, pool[k], wb_up)
           cleared == sel.cleared \/ (ss.used_countries # {} /\ r.s.used_countries = {})
       IN /\ call' = Call("select_mystery_country", << >>, r.why)
          /\ UNCHANGED cache
          /\ IF r.result # None
               THEN /\ Return(start_round(r.s, r.result[1], borders_up), via)
                    /\ EndLoop
                    /\ rounds' = rounds + 1
                    /\ sel' = [sel EXCEPT !.cleared = cleared, !.result = "ok"]
             ELSE IF retry_left(i)
               THEN /\ ss' = r.s
                    /\ i' = i + 1
                    /\ sel' = [sel EXCEPT !.cleared = cleared]
                    /\ UNCHANGED <<pc, pool, via, ui, cb, rounds, wins>>
             ELSE /\ Return(selection_failed(r.s), via)
                  /\ EndLoop
                  /\ sel' = [sel EXCEPT !.cleared = cleared, !.result = "failed"]
                  /\ UNCHANGED rounds

(***************************************************************************)
(* handle_name_submit, from the name input's on_change and from the Start  *)
(* Game button.                                                            *)
(***************************************************************************)
handle_name_submit(s0, v) ==
  IF s0.name_input # ""
    THEN BeginInit([s0 EXCEPT !.user_name = Some(s0.name_input)], v)
    ELSE /\ Return(s0, v)
         /\ call' = Call("handle_name_submit", << >>, "no name")
         /\ UNCHANGED <<cache, i, pool, via, rounds, sel>>

NameChange(n) ==
  /\ pc = "idle"
  /\ ui = "name"
  /\ cb = 0
  /\ n # ss.name_input
  /\ handle_name_submit([ss EXCEPT !.name_input = n], "change")

ClickStart ==
  /\ pc = "idle"
  /\ ui = "name"
  /\ handle_name_submit(ss, "click")

(***************************************************************************)
(* The widgets of a round in progress: the guess input (on_change),        *)
(* Submit Guess and Next Clue.                                             *)
(***************************************************************************)
TextChange(g) ==
  /\ pc = "idle"
  /\ ui = "game"
  /\ cb = 0
  /\ g # ss.guess_input
  /\ Return(handle_submit_guess([ss EXCEPT !.guess_input = g]), "change")
  /\ call' = Call("handle_submit_guess", g, "change")
  /\ UNCHANGED <<cache, i, pool, via, rounds, sel>>

ClickSubmit ==
  /\ pc = "idle"
  /\ ui = "game"
  /\ Return(handle_submit_guess(ss), "click")
  /\ call' = Call("handle_submit_guess", ss.guess_input, "click")
  /\ UNCHANGED <<cache, i, pool, via, rounds, sel>>

ClickNext ==
  /\ pc = "idle"
  /\ ui = "game"
  /\ Return(handle_next_clue(ss), "click")
  /\ call' = Call("handle_next_clue", << >>, "click")
  /\ UNCHANGED <<cache, i, pool, via, rounds, sel>>

(***************************************************************************)
(* The buttons of the end screen.                                          *)
(***************************************************************************)
PlayAgain ==
  /\ pc = "idle"
  /\ ui = "end"
  /\ BeginInit(ss, "click")

Exit ==
  /\ pc = "idle"
  /\ ui = "end"
  /\ Return(handle_exit(ss), "click")
  /\ call' = Call("handle_exit", << >>, "click")
  /\ UNCHANGED <<cache, i, pool, via, rounds, sel>>

Next ==
  \/ \E n \in Names : NameChange(n)
  \/ ClickStart
  \/ \E g \in Guesses : TextChange(g)
  \/ ClickSubmit
  \/ ClickNext
  \/ Rerun
  \/ PlayAgain
  \/ Exit
  \/ SelectStep
  \/ Expire

Spec == Init /\ [][Next]_vars

\* The retry loop runs on the script thread until it returns.
FairSpec == Spec /\ WF_vars(SelectStep)

(***************************************************************************)
(* Vocabulary of the properties.                                           *)
(***************************************************************************)
\* A round with a target is in progress in session state s.
InRound(s) == s.game_started /\ ~s.game_ended /\ s.mystery_country # None

target(s) == s.mystery_country[1].name

\* The step is a call of one of the two handlers of a round.
RoundCall == call'.op \in {"handle_submit_guess", "handle_next_clue"}

\* The step ends the round in progress as Won, as Lost.
WinStep == ~ss.game_ended /\ ss'.game_ended /\ ss'.win
LossStep == ~ss.game_ended /\ ss'.game_ended /\ ~ss'.win

\* The step is the pass of the retry loop that returns a country, and with
\* it the rest of initialize_game: a round starts.
RoundStart == pc = "select" /\ pc' = "idle" /\ sel'.result = "ok"

\* The step belongs to a call of initialize_game.
InitStep == call'.op \in {"initialize_game", "select_mystery_country"}

Outcome(s) ==
  <<s.game_ended, s.win, s.clue_index, s.current_streak, s.last_streak,
    s.accumulated_points, s.used_countries>>

Aggregates(s) ==
  <<s.game_ended, s.win, s.clue_index, s.current_streak, s.last_streak,
    s.accumulated_points>>

OnlyWhitespace(text) == \A k \in 1..Len(text) : text[k] \in {" ", "\t", "\n"}

(***************************************************************************)
(* C1.  Terminal states are sticky: once a round has ended, a call of      *)
(* handle_submit_guess or handle_next_clue changes nothing of the outcome, *)
(* the clue index, the streaks, the points or the used set.                *)
(* Violated: the handlers do not test game_ended, and the click that       *)
(* follows the guess input's on_change reaches handle_next_clue after the  *)
(* guess has ended the round.                                              *)
(***************************************************************************)
C1_TerminalStatesSticky ==
  [][(ss.game_ended /\ RoundCall) => Outcome(ss)' = Outcome(ss)]_vars

(***************************************************************************)
(* C2.  The call that completes a round with a target (a matching guess,   *)
(* a wrong guess on the last clue, a skip of the last clue) adds exactly   *)
(* one name to used_countries, the target's common name, which was not in  *)
(* the set; a call that does not complete the round leaves the set alone.  *)
(***************************************************************************)
C2_UsedGrowsByTarget ==
  [][(InRound(ss) /\ RoundCall) =>
       IF ss'.game_ended
         THEN /\ target(ss) \notin ss.used_countries
              /\ ss'.used_countries = ss.used_countries \cup {target(ss)}
              /\ Cardinality(ss'.used_countries) = Cardinality(ss.used_countries) + 1
         ELSE ss'.used_countries = ss.used_countries]_vars

C2_Witness ==
  /\ call.op = "handle_next_clue"
  /\ Lost(ss)
  /\ ss.mystery_country # None
  /\ target(ss) \in ss.used_countries
  /\ Cardinality(ss.used_countries) = 2

(***************************************************************************)
(* C3.  A call that wins the round in progress adds to accumulated_points  *)
(* exactly the value of the clue index at that moment in                   *)
(* {0:10, 1:8, 2:6, 3:4, 4:2}; every other call of the two round handlers  *)
(* (wrong guess, skip, loss, empty guess) leaves accumulated_points alone. *)
(***************************************************************************)
C3_PointsByClueIndex ==
  [][RoundCall =>
       IF WinStep
         THEN /\ ss.clue_index \in 0..4
              /\ ss'.accumulated_points =
                   ss.accumulated_points + <<10, 8, 6, 4, 2>>[ss.clue_index + 1]
         ELSE ss'.accumulated_points = ss.accumulated_points]_vars

C3_Witness ==
  /\ call.op = "handle_submit_guess"
  /\ Won(ss)
  /\ ss.clue_index = 0
  /\ ss.accumulated_points = 10
  /\ rounds = 1

(***************************************************************************)
(* C4.  The call that loses a round sets last_streak to the streak before  *)
(* it and current_streak to 0; the call that wins a round adds 1 to        *)
(* current_streak and leaves last_streak alone; and current_streak is      *)
(* always the number of rounds that became Won since a round last became   *)
(* Lost (or since the session started).                                    *)
(***************************************************************************)
C4_StreakAccounting ==
  /\ [][(RoundCall /\ LossStep) =>
          /\ ss'.last_streak = ss.current_streak
          /\ ss'.current_streak = 0]_vars
  /\ [][(RoundCall /\ WinStep) =>
          /\ ss'.current_streak = ss.current_streak + 1
          /\ ss'.last_streak = ss.last_streak]_vars
  /\ [](ss.current_streak = wins)

C4_Witness ==
  /\ call.op = "handle_next_clue"
  /\ Lost(ss)
  /\ ss.last_streak = 1
  /\ ss.current_streak = 0
  /\ ss.accumulated_points > 0

(***************************************************************************)
(* C5.  clue_index is always in 0..4; it is 0 when a round starts; it      *)
(* never decreases except in the step of initialize_game that starts a     *)
(* new round.                                                              *)
(***************************************************************************)
C5_ClueIndexMonotone ==
  /\ [](ss.clue_index \in 0..4)
  /\ [][RoundStart => ss'.clue_index = 0]_vars
  /\ [][ss'.clue_index < ss.clue_index => RoundStart]_vars

C5_Witness ==
  /\ call.op = "handle_next_clue"
  /\ InRound(ss)
  /\ ss.clue_index = 4

(***************************************************************************)
(* C6.  The country select_mystery_country returns is not in               *)
(* used_countries when it returns, and a country that was in the set when  *)
(* the returning pass began is returned only after the set has been        *)
(* emptied because it held the name of every country of the pool.          *)
(* Violated: the set is emptied when it has at least as many names as the  *)
(* pool has countries, and after the pool has been fetched anew the names  *)
(* can be those of other countries.                                        *)
(***************************************************************************)
C6_SelectedIsUnused ==
  [][RoundStart =>
       /\ ss'.mystery_country # None
       /\ target(ss') \notin ss'.used_countries
       /\ target(ss') \in ss.used_countries =>
            /\ ss'.used_countries = {}
            /\ pool_names(pool) \subseteq ss.used_countries]_vars

(***************************************************************************)
(* C7.  As claimed: a selection invoked with every pool country used       *)
(* empties used_countries and returns a country, never failure.            *)
(* Violated: after the reshuffle the passes can still all be rejected for  *)
(* coordinates.                                                            *)
(***************************************************************************)
C7_ExhaustedSelectionSucceeds ==
  (sel.covered /\ sel.result # "running") => (sel.cleared /\ sel.result = "ok")

(***************************************************************************)
(* C7, amended.  A selection invoked with every pool country used empties  *)
(* used_countries in its first pass and rejects no candidate as used:      *)
(* every pass either returns its candidate, with the set still empty, or   *)
(* rejects it for its coordinates, and the selection fails only with the   *)
(* pass that uses up the 100 retries.                                      *)
(***************************************************************************)
C7_ExhaustedSelectionRetries ==
  [][(pc = "select" /\ sel.covered) =>
       /\ sel'.cleared
       /\ ss'.used_countries = {}
       /\ call'.why # "used"
       /\ call'.why = "ok" <=> sel'.result = "ok"
       /\ sel'.result = "ok" => InRound(ss')
       /\ sel'.result = "failed" => i = 99]_vars

C7_Witness ==
  /\ call.op = "select_mystery_country"
  /\ sel.covered
  /\ sel.cleared
  /\ sel.result = "ok"
  /\ InRound(ss)
  /\ ss.used_countries = {}

(***************************************************************************)
(* C8.  Every call of select_mystery_country ends: it makes at most 100    *)
(* passes, and when the last of them rejects its candidate it returns      *)
(* None, which initialize_game stores as the mystery country.              *)
(***************************************************************************)
C8_SelectionTerminates ==
  /\ [](pc = "select" => i < 100)
  /\ [](sel.result = "failed" => (pc = "idle" /\ ss.mystery_country = None))
  /\ [][(pc = "select" /\ sel'.result = "failed") => i = 99]_vars
  /\ (pc = "select") ~> (pc = "idle")

C8_Witness ==
  /\ call.op = "select_mystery_country"
  /\ sel.result = "failed"
  /\ pc = "idle"
  /\ ss.mystery_country = None

(***************************************************************************)
(* C9.  A call of initialize_game that starts no round (no pool, or the    *)
(* retries used up) leaves the outcome, the clue index, the streaks and    *)
(* the points as they were, in every step it takes, and adds no name to    *)
(* used_countries.                                                         *)
(***************************************************************************)
C9_FailedStartKeepsState ==
  [][(InitStep /\ ~RoundStart) =>
       /\ Aggregates(ss)' = Aggregates(ss)
       /\ ss'.game_started = ss.game_started
       /\ ss'.used_countries \subseteq ss.used_countries]_vars

C9_Witness ==
  /\ sel.result = "failed"
  /\ call.op = "select_mystery_country"
  /\ Won(ss)
  /\ ss.clue_index = 2
  /\ ss.accumulated_points = 6
  /\ ss.current_streak = 1

(***************************************************************************)
(* C10.  A guess that is empty or only whitespace, submitted in a round in *)
(* progress, changes nothing of the outcome, the clue index, the streaks,  *)
(* the points or the used set, at every clue index.                        *)
(***************************************************************************)
C10_EmptyGuessIgnored ==
  [][(/\ call'.op = "handle_submit_guess"
      /\ OnlyWhitespace(call'.guess)
      /\ ss.game_started /\ ~ss.game_ended) =>
       Outcome(ss)' = Outcome(ss)]_vars

C10_Witness ==
  /\ call.op = "handle_submit_guess"
  /\ call.guess = <<" ", " ">>
  /\ ss.guess_input = <<" ", " ">>
  /\ InRound(ss)
  /\ ss.clue_index = 4

\* The guess g, typed in session state s, is not empty and does not match
\* the target of s.
NonMatching(g, s) ==
  /\ normalize_text(g) # << >>
  /\ ~is_match(normalize_text(g), normalize_text(target(s)))

\* Session state s after its round has been lost.
LostFrom(s) ==
  [s EXCEPT !.game_ended = TRUE,
            !.win = FALSE,
            !.last_streak = s.current_streak,
            !.current_streak = 0,
            !.used_countries = @ \cup {target(s)},
            !.guess_input = << >>]

(***************************************************************************)
(* C11.  On the last clue (clue_index 4) of a round in progress a skip     *)
(* (handle_next_clue) and a non-matching guess (handle_submit_guess) give  *)
(* the same session state: the round Lost, last_streak the streak before,  *)
(* current_streak 0, the points as before, the target's name added to      *)
(* used_countries, clue_index still 4, and nothing else changed.           *)
(***************************************************************************)
C11_LastClueSkipIsWrongGuess ==
  [][(/\ InRound(ss)
      /\ ss.clue_index = 4
      /\ \/ call'.op = "handle_next_clue"
         \/ call'.op = "handle_submit_guess" /\ NonMatching(call'.guess, ss)) =>
       /\ ss' = LostFrom(ss)
       /\ Lost(ss')
       /\ ss'.clue_index = 4
       /\ ss'.accumulated_points = ss.accumulated_points]_vars

C11_Witness ==
  /\ call.op = "handle_submit_guess"
  /\ call.guess = <<"P","e","r","u">>
  /\ Lost(ss)
  /\ ss.clue_index = 4
  /\ ss.last_streak = 1
  /\ ss.current_streak = 0
  /\ ss.mystery_country # None
  /\ target(ss) \in ss.used_countries

\* The geo service's record of country c has a latitude and a longitude.
HasCoordinates(c) ==
  LET data == WorldBank(get(c.cca2, "XX"))
  IN data # None /\ data[1].latitude # None /\ data[1].longitude # None

\* The geo service's record of country c has no income level.
LacksIncomeLevel(c) ==
  LET data == WorldBank(get(c.cca2, "XX"))
  IN data # None /\ data[1].incomeLevel = None

(***************************************************************************)
(* C12.  Missing partial clue data never blocks a round: no pass of        *)
(* select_mystery_country rejects its candidate because the geo record,    *)
(* which has latitude and longitude, has no income level; and a round      *)
(* whose target has no income level shows 'Unavailable' as the             *)
(* classification of clue 1.                                               *)
(* Violated: get_world_bank_clue reads the income level inside the try     *)
(* block, so a record without it gives the Unavailable record with no      *)
(* coordinates, and the selection rejects the candidate.                   *)
(***************************************************************************)
C12_PartialDataNeverBlocks ==
  [][call'.op = "select_mystery_country" =>
       /\ call'.why # "no income level"
       /\ (RoundStart /\ LacksIncomeLevel(ss'.mystery_country[1])) =>
            ss'.clues_list[1].classification = "Unavailable"]_vars

(***************************************************************************)
(* C13.  used_countries only grows, except that it is emptied as a whole   *)
(* (a) by a pass of select_mystery_country when the set holds the name of  *)
(* every country of the pool of that call, or (b) by handle_exit.          *)
(* Violated: the pass compares the number of used names with the number    *)
(* of pool countries; after the pool has been fetched anew the set can be  *)
(* as large as the pool without holding the pool's names.                  *)
(***************************************************************************)
C13_UsedClearedOnlyWhenCovered ==
  [][\/ ss.used_countries \subseteq ss'.used_countries
     \/ /\ ss'.used_countries = {}
        /\ \/ call'.op = "handle_exit"
           \/ /\ call'.op = "select_mystery_country"
              /\ pool_names(pool) \subseteq ss.used_countries]_vars

(***************************************************************************)
(* The match rule on its own: a round in progress on a country of any of   *)
(* the names of MatchTargets (the other keys of the record play no part    *)
(* in the match), in which one of MatchGuesses is typed.                   *)
(***************************************************************************)
MatchTargets ==
  {<<"I","r","a","n">>,
   <<"C","h","a","d">>,
   <<"L","a","o","s">>,
   <<"O","m","a","n">>,
   <<"N","i","g","e","r">>,
   <<"T","u-diaeresis","r","k","i","y","e">>,
   <<"U","n","i","t","e","d"," ","K","i","n","g","d","o","m">>,
   <<"U","n","i","t","e","d"," ","S","t","a","t","e","s">>}

MatchGuesses ==
  {<<"i","r","a","n">>,
   <<"\t","I","R","a","n","\n"," ">>,
   <<"P","e","r","s","i","a">>,
   <<"i","r","a">>,
   <<"i","r","a","q">>,
   <<"i","r","e","l","a","n","d">>,
   <<"p","e","r","u">>,
   <<"m","a","l","i">>,
   <<"l","a","o"," ","p","d","r">>,
   <<"o","m","n">>,
   <<"n","i","g","e","r","i","a">>,
   <<"n","i","g","e","r","i","a","n","s">>,
   <<"T","u","r","k","e","y">>,
   <<"t","u","r","k","i","y","e">>,
   <<"U","K">>,
   <<"u","s">>,
   <<"u","s","a">>,
   <<"u","n","i","t","e","d"," ","k","i","n","g","d","o","m","s">>,
   <<"u","n","i","t","e","d"," ","s","t","a","t","e","s"," ","o","f"," ","a">>,
   <<"x">>}

MatchRound(name) ==
  LET s == [InitialSession EXCEPT !.user_name = Some("Ann"),
                                  !.name_input = "Ann"]
      r == select_pass(s, <<[Iran EXCEPT !.name = name]>>,
                       [Iran EXCEPT !.name = name], TRUE)
  IN start_round(r.s, r.result[1], TRUE)

MatchInit ==
  /\ \E name \in MatchTargets : ss = MatchRound(name)
  /\ cache = None
  /\ pc = "idle"
  /\ i = 0
  /\ pool = << >>
  /\ via = "click"
  /\ ui = "game"
  /\ cb = 0
  /\ call = Call("none", << >>, "")
  /\ rounds = 1
  /\ sel = NoSelection
  /\ wins = 0

MatchNext == \E g \in MatchGuesses : TextChange(g)

MatchSpec == MatchInit /\ [][MatchNext]_vars

\* b can be made from a with at most k insertions, deletions and
\* substitutions of one character.
RECURSIVE WithinEdits(_, _, _)
WithinEdits(a, b, k) ==
  IF k < 0 THEN FALSE
  ELSE IF a = << >> THEN Len(b) <= k
  ELSE IF b = << >> THEN Len(a) <= k
  ELSE IF Head(a) = Head(b) THEN WithinEdits(Tail(a), Tail(b), k)
  ELSE \/ WithinEdits(Tail(a), b, k - 1)
       \/ WithinEdits(a, Tail(b), k - 1)
       \/ WithinEdits(Tail(a), Tail(b), k - 1)

\* Rules (a), (b) and (c) on a normalized guess u and a normalized target n.
RuleExact(u, n) == u = n
RuleAlias(u, n) == u \in ALTERNATE_NAMES(n)
RuleFuzzy(u, n) == Len(u) > 3 /\ WithinEdits(u, n, 3)

(***************************************************************************)
(* C14.  A non-empty guess submitted in a round in progress wins the round *)
(* exactly when, both texts lowercased and trimmed, (a) it equals the      *)
(* target's name, or (b) it is one of the aliases of the target in         *)
(* ALTERNATE_NAMES, or (c) it has more than 3 characters and is within 3   *)
(* edits of the target's name; a guess of at most 3 characters wins only   *)
(* by (a) or (b).                                                          *)
(***************************************************************************)
C14_MatchRule ==
  [][(/\ call'.op = "handle_submit_guess"
      /\ InRound(ss)
      /\ normalize_text(call'.guess) # << >>) =>
       LET u == normalize_text(call'.guess)
           n == normalize_text(target(ss))
       IN /\ WinStep <=> (RuleExact(u, n) \/ RuleAlias(u, n) \/ RuleFuzzy(u, n))
          /\ (WinStep /\ Len(u) <= 3) => (RuleExact(u, n) \/ RuleAlias(u, n))]_vars

C14_Witness ==
  /\ call.op = "handle_submit_guess"
  /\ call.guess = <<"n","i","g","e","r","i","a">>
  /\ target(ss) = <<"N","i","g","e","r">>
  /\ Won(ss)

(***************************************************************************)
(* C15.  handle_exit reports the points and the streak as they were just   *)
(* before it, and leaves the session state empty: no player name,          *)
(* current_streak 0, accumulated_points 0, used_countries empty,           *)
(* last_streak 0, no round in progress or ended.                           *)
(* Violated: handle_exit does not assign last_streak, which keeps the      *)
(* streak captured by the last lost round.                                 *)
(***************************************************************************)
C15_ExitResetsSession ==
  [][call'.op = "handle_exit" =>
       /\ ss'.exit_message = Some([points |-> ss.accumulated_points,
                                   streak |-> ss.current_streak])
       /\ ss'.user_name = None
       /\ ss'.current_streak = 0
       /\ ss'.accumulated_points = 0
       /\ ss'.used_countries = {}
       /\ ss'.last_streak = 0
       /\ ~ss'.game_started
       /\ ~ss'.game_ended]_vars

\* The record of the pool from which the target of session state s was drawn
\* has no neighbors: no borders key, or an empty list.
DrawnWithoutNeighbors(filtered_countries, s) ==
  \E k \in 1..Len(filtered_countries) :
    /\ filtered_countries[k].name = target(s)
    /\ \/ filtered_countries[k].borders = None
       \/ filtered_countries[k].borders = Some(<< >>)

(***************************************************************************)
(* C16.  When a round starts on a country whose record has no borders key  *)
(* or an empty list of borders, the target's borders are the island        *)
(* sentinel ['Island'] and clue 4 is the island text; and the neighbor     *)
(* text of clue 4 of a round that starts is never empty.                   *)
(***************************************************************************)
C16_IslandSentinel ==
  [][RoundStart =>
       /\ DrawnWithoutNeighbors(pool, ss') =>
            /\ ss'.mystery_country[1].borders = Some(<<"Island">>)
            /\ ss'.clues_list[4].neighbors = IslandText
       /\ ss'.clues_list[4].neighbors # << >>
       /\ \A k \in 1..Len(ss'.clues_list[4].neighbors) :
            ss'.clues_list[4].neighbors[k] # ""]_vars

C16_Witness ==
  /\ call.op = "select_mystery_country"
  /\ InRound(ss)
  /\ target(ss) = <<"I","r","a","q">>
  /\ ss.mystery_country[1].borders = Some(<<"Island">>)
  /\ ss.clues_list[4].neighbors = IslandText

(***************************************************************************)
(* C17.  In a round in progress with clue_index below 4, a skip and a      *)
(* non-matching guess add exactly 1 to clue_index and leave the round in   *)
(* progress; the target, the clue list, current_streak, last_streak,       *)
(* accumulated_points and used_countries stay as they were (of the whole   *)
(* session state only clue_index and the emptied guess input change).      *)
(***************************************************************************)
C17_AdvanceChangesOnlyClueIndex ==
  [][(/\ InRound(ss)
      /\ ss.clue_index < 4
      /\ \/ call'.op = "handle_next_clue"
         \/ call'.op = "handle_submit_guess" /\ NonMatching(call'.guess, ss)) =>
       /\ ss' = [ss EXCEPT !.clue_index = @ + 1, !.guess_input = << >>]
       /\ InRound(ss')
       /\ ss'.mystery_country = ss.mystery_country
       /\ ss'.clues_list = ss.clues_list
       /\ Len(ss'.clues_list) = 5]_vars

C17_Witness ==
  /\ call.op = "handle_submit_guess"
  /\ call.guess = <<"P","e","r","u">>
  /\ InRound(ss)
  /\ ss.clue_index = 3
  /\ ss.current_streak = 1
  /\ ss.accumulated_points > 0
  /\ ss.used_countries # {}

\* The five clues of session state s are those of its target: clue 1 holds
\* the coordinates of the round, clues 2, 3 and 5 the population, the first
\* currency code and the capital of the target.
CluesOfTarget(s) ==
  /\ Len(s.clues_list) = 5
  /\ \A k \in 1..5 : s.clues_list[k].clue = k /\ s.clues_list[k].points = POINT_MAP[k - 1]
  /\ s.clues_list[1].location.abs_lat = abs(s.lat[1])
  /\ s.clues_list[1].location.abs_lon = abs(s.lon[1])
  /\ s.clues_list[2].population = s.mystery_country[1].population[1]
  /\ s.clues_list[3].currency = get(s.mystery_country[1].currencies, <<"ABC">>)[1]
  /\ s.clues_list[5].capital = get(s.mystery_country[1].capital, <<"Unknown">>)[1]

(***************************************************************************)
(* C18.  Whenever game_started holds (a round is in progress or has        *)
(* ended), mystery_country is set and clues_list holds the 5 clues of that *)
(* country.                                                                *)
(* Violated: initialize_game assigns None to mystery_country when the pool *)
(* fetch or the selection fails, and leaves game_started, game_ended and   *)
(* clues_list of the round before as they were.                            *)
(***************************************************************************)
C18_StartedRoundHasTarget ==
  ss.game_started => (ss.mystery_country # None /\ CluesOfTarget(ss))

(***************************************************************************)
(* C19.  Selection is never doomed: when a call of select_mystery_country  *)
(* begins with a pool that holds a country whose coordinates the geo       *)
(* service resolves, then after the reshuffle check of its first pass some *)
(* country of the pool is unused and has coordinates the geo service       *)
(* resolves.                                                               *)
(* Violated: a pool country the geo service never resolves is never used,  *)
(* so the used set stays smaller than the pool and is not cleared when     *)
(* every resolvable country is in it.                                      *)
(***************************************************************************)
C19_SelectionNeverDoomed ==
  (/\ pc = "select"
   /\ i = 0
   /\ \E k \in 1..Len(pool) : HasCoordinates(pool[k])) =>
    \E k \in 1..Len(pool) :
      /\ pool[k].name \notin reshuffle(ss, pool).used_countries
      /\ HasCoordinates(pool[k])

(***************************************************************************)
(* C20.  A failed catalog fetch is not served from the cache: the entry of *)
(* the cache of fetch_all_countries is never the empty pool of a failed    *)
(* fetch, and initialize_game gives up for want of data only when it has   *)
(* made a request, that is when the cache had no entry.                    *)
(* Violated: fetch_all_countries catches the request's exception and       *)
(* returns [], which st.cache_data stores like any other return value.     *)
(***************************************************************************)
C20_FailedFetchNotCached ==
  /\ [](cache # Some(<< >>))
  /\ [][(call'.op = "initialize_game" /\ call'.why = "no data") => cache = None]_vars

\* Normalized text u is the name of a country, other than the target of
\* session state s, in a pool that holds the target.
OtherPoolCountry(u, s) ==
  \E catalog \in Catalogs :
    LET filtered_countries == fetch_all_countries(Some(catalog)) IN
    /\ target(s) \in pool_names(filtered_countries)
    /\ \E k \in 1..Len(filtered_countries) :
         /\ filtered_countries[k].name # target(s)
         /\ normalize_text(filtered_countries[k].name) = u

(***************************************************************************)
(* C21.  A round is never won by naming another country: when the guess    *)
(* handed to handle_submit_guess is, once normalized, the normalized name  *)
(* of another country of the target's pool, and is neither the target's    *)
(* normalized name nor one of its registered aliases, the call does not    *)
(* end the round as Won.                                                   *)
(* Violated: the names of two pool countries can lie within MAX_MISTAKES   *)
(* edits of each other, and the fuzzy rule then takes one for the other.   *)
(***************************************************************************)
C21_OtherCountryNeverMatches ==
  [][(/\ call'.op = "handle_submit_guess"
      /\ InRound(ss)
      /\ OtherPoolCountry(normalize_text(call'.guess), ss)
      /\ normalize_text(call'.guess) # normalize_text(target(ss))
      /\ normalize_text(call'.guess)
           \notin ALTERNATE_NAMES(normalize_text(target(ss))))
       => ~WinStep]_vars

(***************************************************************************)
(* C22.  A candidate is rejected on coordinate grounds only when the geo   *)
(* request failed, the geo service has no record of it, or the record's    *)
(* latitude or longitude is absent: a pass of select_mystery_country ends  *)
(* by returning the candidate, by skipping a used one, or with one of      *)
(* these three reasons, whatever the numeric values of a latitude and a    *)
(* longitude that are both present.  (The rejection of a record without    *)
(* income level is the subject of C12 and is left aside here.)             *)
(* Violated: get_world_bank_clue tests the parsed numbers with "not lat or *)
(* not lon", which is true of 0.0, and answers as if they were absent.     *)
(***************************************************************************)
C22_ZeroCoordinateEligible ==
  [][call'.op = "select_mystery_country" =>
       call'.why \in {"ok", "used", "request", "no record", "no coordinates",
                      "no income level"}]_vars

=============================================================================
